---- MODULE Spec2Model ----
(***************************************************************************)
(* loudfixer (src/main.go): one run of main() as a state machine.          *)
(*                                                                         *)
(* Strings are sequences of characters.  A few runs of characters that the *)
(* program only ever treats as a whole are kept as one element: "I:",      *)
(* "LUFS", "lu" in the ffmpeg text, "-fixedAudio" in the output name.      *)
(* Loudness values and adjustments are float64 in the program; the texts   *)
(* drawn here have at most one decimal, so they are kept exactly as        *)
(* integers counting tenths (-23.0 is -230).                               *)
(***************************************************************************)
EXTENDS Integers, Sequences, FiniteSets, TLC

----------------------------------------------------------------------------
\* Bounds of the model.

\* fragments (matching or not) concatenated into one ffmpeg diagnostic text
MaxOcc == 2
\* digits before the decimal point of a generated loudness number
MaxIntDigits == 2
\* characters of a generated input path
MaxPathLen == 5
\* streams of a generated ffprobe report
MaxStreams == 2

----------------------------------------------------------------------------
\* Characters.

Digits == {"0", "1", "2", "3", "4", "5", "6", "7", "8", "9"}

DigitVal(c) ==
  CASE c = "0" -> 0 [] c = "1" -> 1 [] c = "2" -> 2 [] c = "3" -> 3
    [] c = "4" -> 4 [] c = "5" -> 5 [] c = "6" -> 6 [] c = "7" -> 7
    [] c = "8" -> 8 [] c = "9" -> 9

\* the elements that stand for more than one character
Chunks == {"I:", "i:", "LUFS", "lufs", "lu", "-fixedAudio"}

\* regexp \d
IsDigit(c) == c \in Digits

\* regexp \s
IsSpace(c) == c \in {" ", "\n"}

\* regexp . : any one character but a newline
AnyChar(c) == c # "" /\ c # "\n" /\ c \notin Chunks

\* s[j], or "" past either end
At(s, j) == IF j \in 1..Len(s) THEN s[j] ELSE ""

Max(S) == CHOOSE x \in S : \A y \in S : y <= x

RECURSIVE Concat(_)
Concat(ss) == IF ss = <<>> THEN <<>> ELSE Head(ss) \o Concat(Tail(ss))

----------------------------------------------------------------------------
\* checkFileLoudness (src/main.go:153-188) on the text getFfmpegReadings
\* returned.

\* strings.ToLower, one character
LowerChar(c) ==
  CASE c = "I:" -> "i:"
    [] c = "LUFS" -> "lufs"
    [] c = "E" -> "e"
    [] c = "X" -> "x"
    [] OTHER -> c

\* strings.ToLower (line 159)
ToLower(s) == [i \in 1..Len(s) |-> LowerChar(s[i])]

\* a literal of the pattern under (?i)
EqFold(c, lit) == LowerChar(c) = lit

\* \s* is greedy: the first index >= j that holds no whitespace
RECURSIVE SkipSpaces(_, _)
SkipSpaces(s, j) == IF IsSpace(At(s, j)) THEN SkipSpaces(s, j + 1) ELSE j

\* the length of the run of digits that starts at j
RECURSIVE DigitRun(_, _)
DigitRun(s, j) == IF IsDigit(At(s, j)) THEN 1 + DigitRun(s, j + 1) ELSE 0

NumberDigitsLiteralPoint(s, ds) ==
  LET ks == {k \in 1..DigitRun(s, ds) :
               /\ At(s, ds + k) = "."
               /\ IsDigit(At(s, ds + k + 1))
               /\ IsSpace(At(s, ds + k + 2))
               /\ EqFold(At(s, ds + k + 3), "lufs")}
  IN IF ks = {} THEN 0 ELSE Max(ks)

\* \d+.\d\sLUFS from index ds: the number of characters \d+ takes (the
\* greedy \d+ gives back digits until the rest matches), 0 when none does
NumberDigits(s, ds) ==
  LET ks == {k \in 1..DigitRun(s, ds) :
               /\ AnyChar(At(s, ds + k))
               /\ IsDigit(At(s, ds + k + 1))
               /\ IsSpace(At(s, ds + k + 2))
               /\ EqFold(At(s, ds + k + 3), "lufs")}
  IN IF ks = {} THEN 0 ELSE Max(ks)

NoMatch == [ok |-> FALSE, gs |-> 0, ge |-> 0, end |-> 0]

\* the pattern of line 161, (?i)i:\s*(-\d+.\d|\d+.\d)\sLUFS, anchored at
\* index i: the capture group is s[gs..ge], the match ends at index end
MatchAt(s, i) ==
  IF ~EqFold(At(s, i), "i:") THEN NoMatch
  ELSE LET gs == SkipSpaces(s, i + 1)
           ds == IF At(s, gs) = "-" THEN gs + 1 ELSE gs
           k  == NumberDigits(s, ds)
       IN IF k = 0 THEN NoMatch
          ELSE [ok |-> TRUE, gs |-> gs, ge |-> ds + k + 1, end |-> ds + k + 3]

\* regexp.FindAllStringSubmatch(s, -1) (line 162): the successive
\* non-overlapping matches, leftmost first, each as <<match, group 1>>
RECURSIVE FindFrom(_, _)
FindFrom(s, pos) ==
  IF pos > Len(s) THEN <<>>
  ELSE LET m == MatchAt(s, pos)
       IN IF m.ok
          THEN << <<SubSeq(s, pos, m.end), SubSeq(s, m.gs, m.ge)>> >>
                 \o FindFrom(s, m.end + 1)
          ELSE FindFrom(s, pos + 1)

FindAllStringSubmatch(s) == FindFrom(s, 1)

\* the value of a run of digits
RECURSIVE DigitsValue(_)
DigitsValue(ds) ==
  IF ds = <<>> THEN 0
  ELSE 10 * DigitsValue(SubSeq(ds, 1, Len(ds) - 1)) + DigitVal(ds[Len(ds)])

AllDigits(s) == \A i \in 1..Len(s) : IsDigit(s[i])

\* strconv.ParseFloat (line 166) on a capture group, that is on an optional
\* '-', digits, one character and a digit: with a decimal point, a digit or
\* an exponent 'e' in the middle it parses; with a letter such as 'x', a
\* blank or a sign there it is a syntax error.  val counts tenths.
ParseFloat(g) ==
  LET neg  == At(g, 1) = "-"
      body == IF neg THEN Tail(g) ELSE g
      n    == Len(body)
      int  == SubSeq(body, 1, n - 2)
      mid  == At(body, n - 1)
      last == At(body, n)
      sign == IF neg THEN -1 ELSE 1
  IN IF n < 3 \/ ~AllDigits(int) \/ ~IsDigit(last)
       THEN [ok |-> FALSE, val |-> 0]
     ELSE IF mid = "."
       THEN [ok |-> TRUE, val |-> sign * (10 * DigitsValue(int) + DigitVal(last))]
     ELSE IF IsDigit(mid)
       THEN [ok |-> TRUE, val |-> sign * 10 * DigitsValue(body)]
     ELSE IF mid = "e"
       THEN [ok |-> TRUE, val |-> sign * 10 * DigitsValue(int) * (10 ^ DigitVal(last))]
     ELSE [ok |-> FALSE, val |-> 0]

\* a whole number of the source in tenths
Tenths(x) == 10 * x

\* the band and the median of each standard (lines 173-182, 190-191)
EbuLow == -24
EbuHigh == -22
EbuTarget == -23
AtscLow == -26
AtscHigh == -22
AtscTargetOfEbu == EbuTarget
AtscTarget == -24

FirstMatch(result) == result[1]

\* result[len(result)-1] (line 165)
LastMatch(result) == result[Len(result)]

InBandExclusive(v, low, high) == v > Tenths(low) /\ v < Tenths(high)

\* the band tests of lines 173 and 179: both ends belong to the band
InBand(v, low, high) == v >= Tenths(low) /\ v <= Tenths(high)

ParseErrorFails ==
  [passed |-> FALSE, loudness |-> <<>>, adjustment |-> 0, err |-> "REGEX PARSE ERROR"]

\* line 169: the number did not parse; err is "" for nil
ParseErrorResult ==
  [passed |-> FALSE, loudness |-> <<>>, adjustment |-> 0, err |-> ""]

NoMatchDegrades ==
  [passed |-> FALSE, loudness |-> <<>>, adjustment |-> 0, err |-> ""]

\* line 186: nothing matched
NoMatchResult ==
  [passed |-> FALSE, loudness |-> <<>>, adjustment |-> 0, err |-> "REGEX PARSE ERROR"]

\* the return values of checkFileLoudness (lines 159-186)
checkFileLoudness(ffmpegResults, std) ==
  LET lowered == ToLower(ffmpegResults)
      result  == FindAllStringSubmatch(lowered)
  IN IF Len(result) > 0 /\ Len(result[1]) > 0
     THEN LET integratedLoudness == LastMatch(result)[2]
              f == ParseFloat(integratedLoudness)
          IN IF ~f.ok THEN ParseErrorResult
             ELSE IF std
               THEN IF InBand(f.val, EbuLow, EbuHigh)
                    THEN [passed |-> TRUE, loudness |-> integratedLoudness,
                          adjustment |-> 0, err |-> ""]
                    ELSE [passed |-> FALSE, loudness |-> integratedLoudness,
                          adjustment |-> Tenths(EbuTarget) - f.val, err |-> ""]
             ELSE IF InBand(f.val, AtscLow, AtscHigh)
                    THEN [passed |-> TRUE, loudness |-> integratedLoudness,
                          adjustment |-> 0, err |-> ""]
                    ELSE [passed |-> FALSE, loudness |-> integratedLoudness,
                          adjustment |-> Tenths(AtscTarget) - f.val, err |-> ""]
     ELSE NoMatchResult

----------------------------------------------------------------------------
\* The path and strings functions main calls (src/main.go:253, 260-264).

LastIndex(s, c) ==
  LET I == {i \in 1..Len(s) : s[i] = c} IN IF I = {} THEN 0 ELSE Max(I)

FirstIndex(s, c) ==
  LET I == {i \in 1..Len(s) : s[i] = c}
  IN IF I = {} THEN 0 ELSE CHOOSE i \in I : \A j \in I : i <= j

RECURSIVE TrimSlashes(_)
TrimSlashes(p) ==
  IF p # <<>> /\ p[Len(p)] = "/" THEN TrimSlashes(SubSeq(p, 1, Len(p) - 1)) ELSE p

\* path.Base: the last element, trailing slashes removed first
Base(p) ==
  IF p = <<>> THEN <<".">>
  ELSE LET t == TrimSlashes(p)
           r == SubSeq(t, LastIndex(t, "/") + 1, Len(t))
       IN IF r = <<>> THEN <<"/">> ELSE r

\* path.Ext: scan back from the end to the final dot of the final element
RECURSIVE ExtFrom(_, _)
ExtFrom(p, i) ==
  IF i < 1 THEN <<>>
  ELSE IF p[i] = "/" THEN <<>>
  ELSE IF p[i] = "." THEN SubSeq(p, i, Len(p))
  ELSE ExtFrom(p, i - 1)

Ext(p) == ExtFrom(p, Len(p))

\* strings.Split(s, sep): the pieces between the separators
RECURSIVE Split(_, _)
Split(s, sep) ==
  LET i == FirstIndex(s, sep)
  IN IF i = 0 THEN <<s>>
     ELSE <<SubSeq(s, 1, i - 1)>> \o Split(SubSeq(s, i + 1, Len(s)), sep)

\* path.Clean's walk over the elements: drop empty and "." elements, let
\* ".." remove the element before it, keep a leading ".." of a relative path
RECURSIVE CleanElems(_, _, _)
CleanElems(elems, out, rooted) ==
  IF elems = <<>> THEN out
  ELSE LET e == Head(elems)
           rest == Tail(elems)
       IN IF e = <<>> \/ e = <<".">> THEN CleanElems(rest, out, rooted)
          ELSE IF e = <<".", ".">>
            THEN IF out # <<>> /\ out[Len(out)] # <<".", ".">>
                   THEN CleanElems(rest, SubSeq(out, 1, Len(out) - 1), rooted)
                 ELSE IF rooted THEN CleanElems(rest, out, rooted)
                 ELSE CleanElems(rest, Append(out, e), rooted)
          ELSE CleanElems(rest, Append(out, e), rooted)

RECURSIVE JoinElems(_)
JoinElems(elems) ==
  IF elems = <<>> THEN <<>>
  ELSE IF Len(elems) = 1 THEN elems[1]
  ELSE elems[1] \o <<"/">> \o JoinElems(Tail(elems))

\* path.Clean
Clean(p) ==
  IF p = <<>> THEN <<".">>
  ELSE LET rooted == p[1] = "/"
           body == JoinElems(CleanElems(Split(p, "/"), <<>>, rooted))
           r == IF rooted THEN <<"/">> \o body ELSE body
       IN IF r = <<>> THEN <<".">> ELSE r

\* path.Dir: all but the last element, cleaned
Dir(p) == Clean(SubSeq(p, 1, LastIndex(p, "/")))

\* path.Join of two elements
Join(a, b) ==
  IF a = <<>> /\ b = <<>> THEN <<>>
  ELSE IF a = <<>> THEN Clean(b)
  ELSE Clean(a \o <<"/">> \o b)

StemBeforeExt(fname) == SubSeq(fname, 1, Len(fname) - Len(Ext(fname)))

\* the stem of the output name: strings.Split(fname, ".")[0] (line 264)
Stem(fname) == Split(fname, ".")[1]

\* the extension of the output name: path.Ext(*checkFile) (line 262)
OutExt(file) == Ext(file)

\* outfile (lines 260-264)
Outfile(file) ==
  LET fname == Base(file)
      fdir  == Dir(file)
      fEtx  == OutExt(file)
  IN Join(fdir, Stem(fname) \o <<"-fixedAudio">> \o fEtx)

\* fmt.Sprintf("%.1fdB", adjustment) (line 257), of an adjustment in tenths
AdjustmentString(a) ==
  LET m == IF a < 0 THEN -a ELSE a
  IN (IF a < 0 THEN "-" ELSE "") \o ToString(m \div 10) \o "." \o ToString(m % 10) \o "dB"

----------------------------------------------------------------------------
\* The ffprobe report and the audio selection (src/main.go:36-91, 213-237).

\* what ffprobe printed: well-formed JSON with these streams, or not JSON
EmptyOutput == [valid |-> FALSE, streams |-> <<>>]

\* the fields of struct media that encoding/json can set, the exported ones:
\* streams and format (lines 37, 74) both start with a lower-case letter
MediaExported == {}

\* json.Unmarshal([]byte(sourceSettings), &m) (lines 213-214): its error is
\* dropped, and a field stays at its zero value unless it is exported
Unmarshal(data) ==
  [streams |-> IF data.valid /\ "streams" \in MediaExported
               THEN data.streams ELSE <<>>]

\* var ( acodec ... audioSampleRate ) (lines 216-221)
ZeroSelection ==
  [acodec |-> "", audioBitRate |-> "", audioChannels |-> 0, audioSampleRate |-> ""]

\* the loop of lines 223-237: every audio stream overwrites the selection
RECURSIVE SelectAudio(_, _)
SelectAudio(streams, sel) ==
  IF streams = <<>> THEN sel
  ELSE LET stream == Head(streams)
       IN SelectAudio(Tail(streams),
            IF stream.codecType = "audio"
            THEN [acodec |-> stream.codecName, audioBitRate |-> stream.bitRate,
                  audioChannels |-> stream.channels,
                  audioSampleRate |-> stream.sampleRate]
            ELSE sel)

----------------------------------------------------------------------------
\* The report (src/main.go:115-122, 244-298).

\* the fields of struct mediaFileLoudness that encoding/json and
\* encoding/xml write, the exported ones: none (lines 116-121)
ReportExported == {}

ZeroReport ==
  [fileName |-> <<>>, passedOrFailed |-> FALSE, loudness |-> <<>>,
   recommendedAdjustment |-> 0, recommendedAdjustmentString |-> "", standard |-> ""]

\* std (lines 244-250)
StandardText(std) ==
  IF std THEN "EBU R128 standard = -23 LUFS +/- 1, True Peak -2dB maximum"
  ELSE "ATSC A/85 RP  = -24 LKFS +/- 2, True Peak -2dB maximum"

\* strings.ToLower(*outputFormat) (line 266)
LowerFormat(f) == IF f = "XML" THEN "xml" ELSE f

\* the document the switch of lines 266-298 writes: its kind and the fields
\* of the result it shows
Render(format, isPassed) ==
  CASE LowerFormat(format) = "json" -> [kind |-> "json", fields |-> ReportExported]
    [] LowerFormat(format) = "xml" -> [kind |-> "xml", fields |-> ReportExported]
    [] LowerFormat(format) = "simple" ->
         [kind |-> "simple",
          fields |-> {"fileName", "loudness", "recommendedAdjustmentString",
                      "passedOrFailed"}]
    [] OTHER ->
         [kind |-> "text",
          fields |-> IF isPassed THEN {"standard", "passed", "loudness"}
                     ELSE {"standard", "passed", "loudness", "adjustment"}]

----------------------------------------------------------------------------
\* State.

VARIABLES
  checkFile, loudnessStd, autoFix, outputFormat,  \* the flags (lines 193-198)
  ffprobeStdout,      \* what ffprobe prints for the file when it runs
  ffmpegStderr,       \* what the ebur128 pass of ffmpeg prints when it runs
  pc,                 \* the position of main
  fatal,              \* the message of the log.Fatal that ended the run, or "none"
  sourceSettings,     \* line 208
  acodec, audioBitRate, audioChannels, audioSampleRate,  \* lines 216-221
  passed, loudness, adjustment,                          \* line 239
  mf, outfile,        \* lines 252-264
  stdout,             \* the documents written to os.Stdout
  started,            \* the transcoder processes started (line 334), by their arguments
  waitErr             \* line 338: whether runCmd.Wait returned an error

inputs == <<checkFile, loudnessStd, autoFix, outputFormat, ffprobeStdout, ffmpegStderr>>
selection == <<acodec, audioBitRate, audioChannels, audioSampleRate>>
measured == <<passed, loudness, adjustment>>
reported == <<mf, outfile, stdout>>
fixed == <<started, waitErr>>
vars == <<inputs, pc, fatal, sourceSettings, selection, measured, reported, fixed>>

----------------------------------------------------------------------------
\* The inputs drawn.

\* all sequences over S of length 0..n
SeqsUpTo(S, n) == UNION {[1..k -> S] : k \in 0..n}

IntDigits == {"1", "2", "3", "4", "6", "9"}
FracDigits == {"0", "1", "4", "9"}
Middles == {".", "x", "5"}

\* the numbers ffmpeg may print: a sign or none, digits, a decimal point (or
\* a stray character in its place) and one digit
NumTexts ==
  {sg \o int \o <<m, f>> :
     sg \in {<<>>, <<"-">>},
     int \in SeqsUpTo(IntDigits, MaxIntDigits) \ {<<>>},
     m \in Middles, f \in FracDigits}

\* the summary line of the ebur128 filter: "I:", blanks, the number, " LUFS"
Summary(num) == <<"I:", " ">> \o num \o <<" ", "LUFS">>

SummaryTexts == {Summary(num) : num \in NumTexts}

\* pieces of a diagnostic text: lines that match the pattern and lines
\* that do not
Fragments ==
  { Summary(<<"-", "2", "3", ".", "0">>),
    Summary(<<"-", "1", "9", ".", "4">>),
    Summary(<<"-", "2", "5", ".", "0">>),
    Summary(<<"-", "2", "x", "0">>),
    <<"i:", "7", "0", "e", "1", "\n", "lufs">>,
    <<"I:", " ", "-", "2", "3", ".", "0", "LUFS">>,
    <<"I:", " ", "-", "2", "3", ".", "0", " ", " ", "LUFS">>,
    <<"-", "2", "9", ".", "9", " ", "LUFS">>,
    <<"I:", " ", "-", "2", "3", ".", "0", " ", "lu">> }

Texts(n) == {Concat(fs) : fs \in SeqsUpTo(Fragments, n)}

AudioAac ==
  [codecType |-> "audio", codecName |-> "aac", bitRate |-> "128000",
   sampleRate |-> "48000", channels |-> 2]
AudioMp3 ==
  [codecType |-> "audio", codecName |-> "mp3", bitRate |-> "320000",
   sampleRate |-> "44100", channels |-> 1]
VideoH264 ==
  [codecType |-> "video", codecName |-> "h264", bitRate |-> "",
   sampleRate |-> "", channels |-> 0]

Reports(n) ==
  {EmptyOutput} \cup
  {[valid |-> TRUE, streams |-> s] : s \in SeqsUpTo({AudioAac, AudioMp3, VideoH264}, n)}

ShowMkv == <<"s", "h", "o", "w", ".", "m", "k", "v">>
ABMov == <<"a", ".", "b", ".", "m", "o", "v">>

\* the paths that name a file: not empty, not ending in a slash
Paths ==
  {p \in SeqsUpTo({"a", "b", ".", "/"}, MaxPathLen) : p # <<>> /\ p[Len(p)] # "/"}
  \cup {ShowMkv, ABMov, <<"d", "/">> \o ABMov}

Formats == {"json", "XML", "simple", "plain"}

----------------------------------------------------------------------------
\* Init: the state when main starts, the flags parsed.

InitWith(files, stds, fixes, formats, reports, texts) ==
  /\ checkFile \in files
  /\ loudnessStd \in stds
  /\ autoFix \in fixes
  /\ outputFormat \in formats
  /\ ffprobeStdout \in reports
  /\ ffmpegStderr \in texts
  /\ pc = "fcheck"
  /\ fatal = "none"
  /\ sourceSettings = EmptyOutput
  /\ acodec = ZeroSelection.acodec
  /\ audioBitRate = ZeroSelection.audioBitRate
  /\ audioChannels = ZeroSelection.audioChannels
  /\ audioSampleRate = ZeroSelection.audioSampleRate
  /\ passed = FALSE
  /\ loudness = <<>>
  /\ adjustment = 0
  /\ mf = ZeroReport
  /\ outfile = <<>>
  /\ stdout = <<>>
  /\ started = <<>>
  /\ waitErr = FALSE

\* whole runs: every flag, a few files, reports and texts
Init ==
  InitWith({ShowMkv, ABMov}, BOOLEAN, BOOLEAN, Formats,
           {EmptyOutput, [valid |-> TRUE, streams |-> <<VideoH264, AudioAac>>]},
           Texts(1))

\* the loudness check over many diagnostic texts
InitLoudness ==
  InitWith({ShowMkv}, BOOLEAN, {TRUE}, {"json"},
           {[valid |-> TRUE, streams |-> <<AudioAac>>]},
           SummaryTexts \cup Texts(MaxOcc))

\* the audio selection over many reports
InitProbe ==
  InitWith({ShowMkv}, {TRUE}, BOOLEAN, {"json", "simple"}, Reports(MaxStreams),
           {Summary(<<"-", "1", "9", ".", "4">>), Summary(<<"-", "2", "3", ".", "0">>)})

\* the output path over many input paths
InitPath ==
  InitWith(Paths, {TRUE}, {TRUE}, {"json"},
           {[valid |-> TRUE, streams |-> <<AudioAac>>]},
           {Summary(<<"-", "1", "9", ".", "4">>)})

----------------------------------------------------------------------------
\* The steps of main (src/main.go:200-341).

\* log.Fatal*: the message is logged and the process exits with status 1
Fatal(msg) == pc' = "exit" /\ fatal' = msg

\* fcheck (lines 93-99, 203-206): os.Stat fails or not
Fcheck ==
  /\ pc = "fcheck"
  /\ \/ Fatal("stat")
     \/ pc' = "probe" /\ UNCHANGED fatal
  /\ UNCHANGED <<inputs, sourceSettings, selection, measured, reported, fixed>>

\* getDataFromFfprobe (lines 101-113, 208-211)
GetDataFromFfprobe ==
  /\ pc = "probe"
  /\ \/ Fatal("ffprobe not found") /\ UNCHANGED sourceSettings
     \/ Fatal("ffprobe failed") /\ UNCHANGED sourceSettings
     \/ sourceSettings' = ffprobeStdout /\ pc' = "select" /\ UNCHANGED fatal
  /\ UNCHANGED <<inputs, selection, measured, reported, fixed>>

SelectStreamsChecked ==
  /\ pc = "select"
  /\ IF ~sourceSettings.valid
     THEN Fatal("json") /\ UNCHANGED selection
     ELSE LET sel == SelectAudio(Unmarshal(sourceSettings).streams, ZeroSelection)
          IN /\ acodec' = sel.acodec
             /\ audioBitRate' = sel.audioBitRate
             /\ audioChannels' = sel.audioChannels
             /\ audioSampleRate' = sel.audioSampleRate
             /\ pc' = "measure"
             /\ UNCHANGED fatal
  /\ UNCHANGED <<inputs, sourceSettings, measured, reported, fixed>>

\* lines 213-237
SelectStreams ==
  /\ pc = "select"
  /\ LET m == Unmarshal(sourceSettings)
         sel == SelectAudio(m.streams, ZeroSelection)
     IN /\ acodec' = sel.acodec
        /\ audioBitRate' = sel.audioBitRate
        /\ audioChannels' = sel.audioChannels
        /\ audioSampleRate' = sel.audioSampleRate
  /\ pc' = "measure"
  /\ UNCHANGED <<inputs, fatal, sourceSettings, measured, reported, fixed>>

CheckFileLoudnessPrinting ==
  /\ pc = "measure"
  /\ \/ Fatal("ffmpeg not found") /\ UNCHANGED <<measured, stdout>>
     \/ Fatal("ffmpeg did not start") /\ UNCHANGED <<measured, stdout>>
     \/ Fatal("ffmpeg failed") /\ UNCHANGED <<measured, stdout>>
     \/ LET r == checkFileLoudness(ffmpegStderr, loudnessStd)
        IN /\ stdout' = Append(stdout, [kind |-> "readings", fields |-> {}])
           /\ passed' = r.passed
           /\ loudness' = r.loudness
           /\ adjustment' = r.adjustment
           /\ IF r.err # "" THEN Fatal(r.err)
              ELSE pc' = "report" /\ UNCHANGED fatal
  /\ UNCHANGED <<inputs, sourceSettings, selection, mf, outfile, fixed>>

\* checkFileLoudness with getFfmpegReadings (lines 127-188, 239-242): ffmpeg
\* is not found, does not start, exits abnormally, or its text is checked
CheckFileLoudness ==
  /\ pc = "measure"
  /\ \/ Fatal("ffmpeg not found") /\ UNCHANGED measured
     \/ Fatal("ffmpeg did not start") /\ UNCHANGED measured
     \/ Fatal("ffmpeg failed") /\ UNCHANGED measured
     \/ LET r == checkFileLoudness(ffmpegStderr, loudnessStd)
        IN /\ passed' = r.passed
           /\ loudness' = r.loudness
           /\ adjustment' = r.adjustment
           /\ IF r.err # "" THEN Fatal(r.err)
              ELSE pc' = "report" /\ UNCHANGED fatal
  /\ UNCHANGED <<inputs, sourceSettings, selection, reported, fixed>>

\* lines 244-298: the result, the output path, the document on stdout.
\* json.MarshalIndent and xml.MarshalIndent cannot fail on this struct, so
\* the log.Fatalln of lines 271 and 279 are never run.
Report ==
  /\ pc = "report"
  /\ mf' = [fileName |-> Base(checkFile), passedOrFailed |-> passed,
            loudness |-> loudness, recommendedAdjustment |-> adjustment,
            recommendedAdjustmentString |-> AdjustmentString(adjustment),
            standard |-> StandardText(loudnessStd)]
  /\ outfile' = Outfile(checkFile)
  /\ stdout' = Append(stdout, Render(outputFormat, passed))
  /\ pc' = "autofix"
  /\ UNCHANGED <<inputs, fatal, sourceSettings, selection, measured, fixed>>

\* the arguments of runCmd (lines 306-332)
RunCmd ==
  [i |-> checkFile, acodec |-> acodec, ba |-> audioBitRate, ac |-> audioChannels,
   ar |-> audioSampleRate, volume |-> mf.recommendedAdjustmentString, out |-> outfile]

WantsFixUnasked == ~passed

\* the condition of lines 300-301
WantsFix == ~passed /\ autoFix

\* lines 300-341: the corrective transcode, then main returns
AutoFix ==
  /\ pc = "autofix"
  /\ IF WantsFix
     THEN \/ Fatal("ffmpeg Error") /\ UNCHANGED fixed
          \/ Fatal("RUN ERROR") /\ UNCHANGED fixed
          \/ /\ started' = Append(started, RunCmd)
             /\ waitErr' \in BOOLEAN
             /\ pc' = "exit"
             /\ UNCHANGED fatal
     ELSE pc' = "exit" /\ UNCHANGED <<fatal, fixed>>
  /\ UNCHANGED <<inputs, sourceSettings, selection, measured, reported>>

Next ==
  \/ Fcheck
  \/ GetDataFromFfprobe
  \/ SelectStreams
  \/ CheckFileLoudness
  \/ Report
  \/ AutoFix

Spec == Init /\ [][Next]_vars
SpecLoudness == InitLoudness /\ [][Next]_vars
SpecProbe == InitProbe /\ [][Next]_vars
SpecPath == InitPath /\ [][Next]_vars

----------------------------------------------------------------------------
\* What the properties speak of.

ProbeFatal == {"stat", "ffprobe not found", "ffprobe failed"}
MeasureFatal == {"ffmpeg not found", "ffmpeg did not start", "ffmpeg failed"}
FixFatal == {"ffmpeg Error", "RUN ERROR"}

\* getDataFromFfprobe has returned the report
Probed ==
  \/ pc \in {"select", "measure", "report", "autofix"}
  \/ pc = "exit" /\ fatal \notin ProbeFatal

\* the loop over the streams has run
Selected ==
  \/ pc \in {"measure", "report", "autofix"}
  \/ pc = "exit" /\ fatal \notin ProbeFatal

\* checkFileLoudness has read the text of ffmpeg and returned
Checked ==
  \/ pc \in {"report", "autofix"}
  \/ pc = "exit" /\ fatal \notin (ProbeFatal \cup MeasureFatal)

\* the switch of lines 266-298 has run
Reported == pc = "autofix" \/ (pc = "exit" /\ fatal \in FixFatal \cup {"none"})

\* the places of the text where an integrated-loudness occurrence starts
Occurrences(text) == {i \in 1..Len(text) : MatchAt(ToLower(text), i).ok}

\* the numeric text of the last occurrence
LastNumber(text) ==
  LET m == MatchAt(ToLower(text), Max(Occurrences(text)))
  IN SubSeq(ToLower(text), m.gs, m.ge)

HasNumber(text) == Occurrences(text) # {} /\ ParseFloat(LastNumber(text)).ok

\* the indices of the audio streams of a report
AudioStreams(report) ==
  IF report.valid
  THEN {i \in 1..Len(report.streams) : report.streams[i].codecType = "audio"}
  ELSE {}

\* runCmd.Start has been called
Invoked == started # <<>> \/ fatal = "RUN ERROR"

----------------------------------------------------------------------------
\* C1: under EBU R128, once checkFileLoudness has returned for a text whose
\* last occurrence holds a number v: no error was returned, the loudness is
\* the matched text, and passed with adjustment 0 when -24 <= v <= -22,
\* failed with adjustment -23 - v otherwise.
C1_EbuDecision ==
  (Checked /\ loudnessStd /\ HasNumber(ffmpegStderr)) =>
    LET v == ParseFloat(LastNumber(ffmpegStderr)).val
    IN /\ fatal # "REGEX PARSE ERROR"
       /\ loudness = LastNumber(ffmpegStderr)
       /\ IF -240 <= v /\ v <= -220
          THEN passed /\ adjustment = 0
          ELSE ~passed /\ adjustment = -230 - v

\* the lower end of the band itself passes
C1_Witness ==
  /\ pc = "autofix" /\ loudnessStd
  /\ ffmpegStderr = Summary(<<"-", "2", "4", ".", "0">>)
  /\ passed /\ adjustment = 0 /\ loudness = <<"-", "2", "4", ".", "0">>

Decision(g, std) ==
  LET f == ParseFloat(g)
      low == IF std THEN -240 ELSE -260
      target == IF std THEN -230 ELSE -240
  IN IF ~f.ok THEN <<FALSE, <<>>, 0>>
     ELSE IF low <= f.val /\ f.val <= -220 THEN <<TRUE, g, 0>>
     ELSE <<FALSE, g, target - f.val>>

\* C3: when the text holds several occurrences, passed, loudness and
\* adjustment are those the last occurrence alone decides.
C3_LastOccurrence ==
  (Checked /\ Cardinality(Occurrences(ffmpegStderr)) >= 2) =>
    /\ fatal # "REGEX PARSE ERROR"
    /\ <<passed, loudness, adjustment>> = Decision(LastNumber(ffmpegStderr), loudnessStd)

\* a passing occurrence followed by a failing one
C3_Witness ==
  /\ pc = "autofix" /\ loudnessStd
  /\ ffmpegStderr = Summary(<<"-", "2", "3", ".", "0">>) \o Summary(<<"-", "1", "9", ".", "4">>)
  /\ ~passed /\ loudness = <<"-", "1", "9", ".", "4">> /\ adjustment = -36

\* C4: when the text holds no occurrence, checkFileLoudness returns the
\* parse error and the run aborts on it: nothing is written to stdout and
\* no transcoder is started, whatever the flags.
C4_NoMatchAborts ==
  (Checked /\ Occurrences(ffmpegStderr) = {}) =>
    /\ pc = "exit" /\ fatal = "REGEX PARSE ERROR"
    /\ stdout = <<>>
    /\ ~Invoked

\* a text with a number and LUFS but no match, autofix requested
C4_Witness ==
  /\ pc = "exit" /\ fatal = "REGEX PARSE ERROR" /\ autoFix
  /\ ffmpegStderr = <<"-", "2", "9", ".", "9", " ", "LUFS">>
  /\ stdout = <<>> /\ started = <<>>

C6_LastAudioStream ==
  (Selected /\ AudioStreams(sourceSettings) # {}) =>
    LET stream == sourceSettings.streams[Max(AudioStreams(sourceSettings))]
    IN /\ acodec = stream.codecName
       /\ audioBitRate = stream.bitRate
       /\ audioSampleRate = stream.sampleRate
       /\ audioChannels = stream.channels
       /\ \A k \in 1..Len(started) :
            /\ started[k].acodec = stream.codecName
            /\ started[k].ba = stream.bitRate
            /\ started[k].ar = stream.sampleRate
            /\ started[k].ac = stream.channels

\* C7: for a report with no audio stream, malformed reports included, the
\* selection stays at its zero values and the run is not aborted over it:
\* it goes on to the loudness measurement and the report.
C7_NoAudioStream ==
  (Probed /\ AudioStreams(sourceSettings) = {}) =>
    /\ pc = "exit" => fatal \in MeasureFatal \cup FixFatal \cup {"REGEX PARSE ERROR", "none"}
    /\ Selected =>
         /\ acodec = "" /\ audioBitRate = "" /\ audioSampleRate = ""
         /\ audioChannels = 0

\* a malformed report, and the run has written its report
C7_Witness ==
  /\ pc = "autofix" /\ ~ffprobeStdout.valid /\ sourceSettings = ffprobeStdout
  /\ acodec = "" /\ audioChannels = 0 /\ Len(stdout) = 1

\* the last element of a path that does not end in a slash
FileName(p) == SubSeq(p, LastIndex(p, "/") + 1, Len(p))

\* C8: the output path lies in the directory of the input and its name is
\* stem-fixedAudio ext: stem the input's file name before its first dot,
\* ext the file name from its last dot on.
C8_OutputPath ==
  Reported =>
    LET name == FileName(checkFile)
        stem == IF FirstIndex(name, ".") = 0 THEN name
                ELSE SubSeq(name, 1, FirstIndex(name, ".") - 1)
        ext  == IF LastIndex(name, ".") = 0 THEN <<>>
                ELSE SubSeq(name, LastIndex(name, "."), Len(name))
    IN /\ FileName(outfile) = stem \o <<"-fixedAudio">> \o ext
       /\ Dir(outfile) = Dir(checkFile)

\* a.b.mov loses its .b
C8_Witness ==
  /\ pc = "exit" /\ checkFile = ABMov
  /\ outfile = <<"a", "-fixedAudio", ".", "m", "o", "v">>

\* C9 as claimed: at the end of every run the transcoder has been invoked
\* exactly when the run reached a failed result with autofix set.
C9_Original ==
  pc = "exit" => (Invoked <=> (Checked /\ fatal # "REGEX PARSE ERROR" /\ ~passed /\ autoFix))

\* C9 as amended: the transcoder is invoked at most once and only after a
\* failed result with autofix set; a run that reached such a result ends
\* with the transcoder invoked, or aborted because ffmpeg was not found.
C9_InvokedOnlyWhenWanted ==
  /\ Len(started) <= 1
  /\ Invoked => (Reported /\ ~passed /\ autoFix)
  /\ (pc = "exit" /\ Reported /\ ~passed /\ autoFix) =>
        (Invoked \/ fatal = "ffmpeg Error")

\* the degraded result, adjustment 0, is transcoded too
C9_Witness ==
  /\ pc = "exit" /\ fatal = "none" /\ autoFix
  /\ ffmpegStderr = Summary(<<"-", "2", "x", "0">>)
  /\ Len(started) = 1 /\ started[1].volume = "0.0dB"

\* C10 as claimed: a run that ended on a fatal error has written nothing.
C10_Original == (pc = "exit" /\ fatal # "none") => stdout = <<>>

\* C10 as amended: a run that ended on a fatal error of the file check, the
\* probe or the measurement has written nothing; a run that ended on a fatal
\* error of the corrective transcode has written its one report before.
C10_FatalBeforeReport ==
  /\ (pc = "exit" /\ fatal \notin FixFatal \cup {"none"}) =>
        (stdout = <<>> /\ started = <<>>)
  /\ (pc = "exit" /\ fatal \in FixFatal) => (Len(stdout) = 1 /\ ~passed /\ autoFix)

C10_Witness ==
  /\ pc = "exit" /\ fatal = "ffmpeg failed" /\ stdout = <<>>
  /\ sourceSettings = ffprobeStdout /\ ffprobeStdout.valid

\* one of the three tools could not be launched (not located, not started)
LaunchFailed ==
  fatal \in {"ffprobe not found", "ffmpeg not found", "ffmpeg did not start",
             "ffmpeg Error", "RUN ERROR"}

\* one of the three tools ran and exited abnormally; for the transcoder
\* that is the error runCmd.Wait returned
ExitedNonZero == fatal \in {"ffprobe failed", "ffmpeg failed"} \/ waitErr

\* C11: a run in which the probe, the measurement or the corrective
\* transcode could not be launched or exited non-zero ends in a failed
\* state, never as a success.
C11_ToolFailureTerminal ==
  (pc = "exit" /\ (LaunchFailed \/ ExitedNonZero)) => fatal # "none"

\* s[a..b] are all whitespace
Blanks(s, a, b) == \A j \in a..b : IsSpace(At(s, j))

\* s[a..b] are all digits
AllDigitsAt(s, a, b) == \A j \in a..b : IsDigit(At(s, j))

\* the form i:\s*(-?\d+\.\d)\s*LUFS starts at index i of s, whatever the
\* case: "i:", w blanks, a minus sign or none, k digits, a decimal point,
\* one digit, w2 blanks, "LUFS"
PointForm(s, i) ==
  /\ EqFold(At(s, i), "i:")
  /\ \E w \in 0..Len(s) :
       /\ Blanks(s, i + 1, i + w)
       /\ \E sg \in {0, 1} :
            /\ sg = 1 => At(s, i + w + 1) = "-"
            /\ \E k \in 1..Len(s) :
                 LET d == i + w + sg
                 IN /\ AllDigitsAt(s, d + 1, d + k)
                    /\ At(s, d + k + 1) = "."
                    /\ IsDigit(At(s, d + k + 2))
                    /\ \E w2 \in 0..Len(s) :
                         /\ Blanks(s, d + k + 3, d + k + 2 + w2)
                         /\ EqFold(At(s, d + k + 3 + w2), "lufs")

\* the form i:\s*(-\d+.\d|\d+.\d)\sLUFS starts at index i of s, whatever
\* the case: "i:", w blanks, a minus sign or none, k digits, any one
\* character but a newline, one digit, one blank, "LUFS"
AnyCharForm(s, i) ==
  /\ EqFold(At(s, i), "i:")
  /\ \E w \in 0..Len(s) :
       /\ Blanks(s, i + 1, i + w)
       /\ \E sg \in {0, 1} :
            /\ sg = 1 => At(s, i + w + 1) = "-"
            /\ \E k \in 1..Len(s) :
                 LET d == i + w + sg
                 IN /\ AllDigitsAt(s, d + 1, d + k)
                    /\ AnyChar(At(s, d + k + 1))
                    /\ IsDigit(At(s, d + k + 2))
                    /\ IsSpace(At(s, d + k + 3))
                    /\ EqFold(At(s, d + k + 4), "lufs")

\* C12 as claimed: the places of the text where checkFileLoudness finds an
\* occurrence are exactly those where the form with a literal decimal point
\* and any number of blanks before LUFS starts, and the run aborts on the
\* parse error exactly when the text holds no such place.
C12_Original ==
  Checked =>
    /\ \A i \in 1..Len(ffmpegStderr) :
         MatchAt(ToLower(ffmpegStderr), i).ok <=> PointForm(ffmpegStderr, i)
    /\ fatal = "REGEX PARSE ERROR" <=>
         ~\E i \in 1..Len(ffmpegStderr) : PointForm(ffmpegStderr, i)

\* C12 as amended: the places of the text where checkFileLoudness finds an
\* occurrence are exactly those where the form with any one character
\* between the digits and exactly one blank before LUFS starts, and the run
\* aborts on the parse error exactly when the text holds no such place.
C12_RecognisedForm ==
  Checked =>
    /\ \A i \in 1..Len(ffmpegStderr) :
         MatchAt(ToLower(ffmpegStderr), i).ok <=> AnyCharForm(ffmpegStderr, i)
    /\ fatal = "REGEX PARSE ERROR" <=>
         ~\E i \in 1..Len(ffmpegStderr) : AnyCharForm(ffmpegStderr, i)

\* "I: -23.0LUFS", no blank before LUFS, is not recognised, and "I: -2x0
\* LUFS" after it is
C12_Witness ==
  /\ pc = "autofix"
  /\ ffmpegStderr = <<"I:", " ", "-", "2", "3", ".", "0", "LUFS">>
                       \o Summary(<<"-", "2", "x", "0">>)
  /\ PointForm(ffmpegStderr, 1) /\ ~AnyCharForm(ffmpegStderr, 1)
  /\ ~PointForm(ffmpegStderr, 9) /\ AnyCharForm(ffmpegStderr, 9)
  /\ ~passed /\ loudness = <<>>

====
